---- MODULE Spec2Model ----
(***************************************************************************)
(* A model of the AIRPET Geant4 application (src/geant4): the sensitive    *)
(* detector's hit collection, the run and event actions that define and    *)
(* fill the output n-tuples, and the detector-construction commands.       *)
(*                                                                         *)
(* The toolkit drives the user classes through callbacks.  The order in    *)
(* which the run manager calls them is modelled by g4state; the analysis   *)
(* manager is modelled by the n-tuples it holds.  Energies are integers in *)
(* keV.                                                                    *)
(*                                                                         *)
(* Four specifications: Spec is a whole session (commands, geometry, runs, *)
(* events), SpecSD one detector within an event, SpecTrk the tracking loop *)
(* of an event with its trajectories, and SpecMain the start of main up to *)
(* the hand-over of the physics list.                                      *)
(***************************************************************************)
EXTENDS Integers, Sequences, FiniteSets, TLC

\* ---------------------------------------------------------------- bounds
\* Steps handed to one detector within one event (detector-level spec).
MaxSteps == 2
\* Steps and tracks of one event, events of one run, runs and commands of
\* one session (session-level spec).
MaxEventSteps == 1
MaxTracks == 1
MaxEvents == 1
MaxRuns == 2
MaxCmds == 2
\* Steps and trajectories of one event (tracking-level spec).
MaxTrackSteps == 2
MaxTrajectories == 2

\* ------------------------------------------------------------ input sets
PVNames == {"pvA", "pvB"}
LVNames == {"lvA", "lvB"}
SDNames == {"sd1", "sd2"}
CopyNumbers == {0, 1}
Edeps == {0, 1, 2}
TrackIDs == {1, 2}
NoSD == "none"

\* A step as ProcessHits reads it: the touchable of the pre-step point (the
\* physical volume, its logical volume, the volume's own copy number and the
\* replica number of the touchable), the energy deposit and the track.
Steps ==
  [pv : PVNames, lv : LVNames, volCopy : CopyNumbers, replica : CopyNumbers,
   edep : Edeps, track : TrackIDs]

VARIABLES
  g4state,                \* application state of the run manager
  geometryInitialized,    \* run manager: the geometry is up to date
  fGDMLFilename,          \* DetectorConstruction
  fSensitiveDetectorsMap, \* DetectorConstruction: LV name -> SD name
  fWorldVolume,           \* DetectorConstruction: file the world came from
  exceptions,             \* exception codes reported so far
  lvSD,                   \* constructed geometry: LV name -> attached SD
  sdList,                 \* SD manager: registered detectors, in order
  fSaveParticles,         \* RunAction
  fSaveHits,              \* RunAction
  fHitEnergyThreshold,    \* RunAction
  fileOpen,               \* analysis manager: an output file is open
  ntuples,                \* analysis manager: the n-tuples, ID = index - 1
  fills,                  \* analysis manager: the Fill...Column calls seen
  amCalls,                \* analysis manager: counts of open, write, close
  fHitsCollectionIDs,     \* EventAction
  eventID,                \* ID of the event in progress / next event
  eventsToDo,             \* events left in the run in progress
  fHitsCollection,        \* SD name -> hits collection of the event
  stepLog,                \* history: steps handed to ProcessHits this event
  nStepsInEvent,          \* steps taken in the event in progress
  trajectoryContainer,    \* trajectories of the event in progress
  nCmds,                  \* commands issued in the session
  nRuns,                  \* runs started in the session
  readMissing,            \* history: readFile was last given a missing file
  trajLog,                \* history: what each trajectory was built from
  lastMerge,              \* history: the MergeTrajectory call just made
  fpTrack,                \* tracking manager: the track in progress
  trackStack,             \* stack manager: the tracks waiting
  pc,                     \* main: the statement reached
  G4PHYSICSLIST,          \* environment variable, << >> when unset
  G4OPTICALPHYSICS,       \* environment variable, << >> when unset
  physListName,           \* main
  physicsList,            \* main: << >> is the null pointer
  opticalRegistered,      \* G4OpticalPhysics was registered in the list
  userPhysicsList         \* run manager: the physics list it was handed

detVars == <<fGDMLFilename, fSensitiveDetectorsMap, fWorldVolume, exceptions,
             lvSD, sdList, geometryInitialized>>
runVars == <<fSaveParticles, fSaveHits, fHitEnergyThreshold>>
amVars == <<fileOpen, ntuples, fills, amCalls>>
evVars == <<eventID, eventsToDo, fHitsCollection, stepLog, nStepsInEvent,
            trajectoryContainer, trajLog>>
trkVars == <<lastMerge, fpTrack, trackStack>>
mainVars == <<pc, G4PHYSICSLIST, G4OPTICALPHYSICS, physListName, physicsList,
              opticalRegistered, userPhysicsList>>
vars == <<g4state, detVars, runVars, amVars, fHitsCollectionIDs, evVars,
          nCmds, nRuns, readMissing, trkVars, mainVars>>

\* ------------------------------------------------- AirPetSensitiveDetector
\* The copy number ProcessHits uses: the replica number, or the volume's own
\* copy number when the replica number is 0.
CopyNoOf(step) ==
  IF step.replica = 0 THEN step.volCopy ELSE step.replica

\* The hit ProcessHits creates for the first step in a crystal.
NewHit(step) ==
  [pv |-> step.pv, lv |-> step.lv, copyNo |-> CopyNoOf(step),
   edep |-> step.edep, track |-> step.track]

\* FindHit with the hit's copy number compared to the raw replica number.
FindHit_RawReplica(coll, step) ==
  LET match == {i \in 1..Len(coll) :
                  /\ coll[i].pv = step.pv
                  /\ coll[i].lv = step.lv
                  /\ coll[i].copyNo = step.replica}
  IN IF match = {} THEN 0
     ELSE CHOOSE i \in match : \A j \in match : i <= j

\* Index of the first hit of the collection that matches the step's
\* physical volume name, logical volume name and copy number; 0 if none.
FindHit(coll, step) ==
  LET match == {i \in 1..Len(coll) :
                  /\ coll[i].pv = step.pv
                  /\ coll[i].lv = step.lv
                  /\ coll[i].copyNo = CopyNoOf(step)}
  IN IF match = {} THEN 0
     ELSE CHOOSE i \in match : \A j \in match : i <= j

\* ProcessHits without the test for a zero energy deposit.
ProcessHits_NoEdepTest(coll, step) ==
  LET i == FindHit(coll, step) IN
  IF i # 0
  THEN [coll EXCEPT ![i].edep = @ + step.edep]
  ELSE Append(coll, NewHit(step))

\* ProcessHits with the deposit of a later step replacing the hit's energy.
ProcessHits_SetEdep(coll, step) ==
  IF step.edep = 0 THEN coll
  ELSE LET i == FindHit(coll, step) IN
       IF i # 0
       THEN [coll EXCEPT ![i].edep = step.edep]
       ELSE Append(coll, NewHit(step))

\* ProcessHits on one collection: nothing for a step without energy deposit,
\* the deposit added to the crystal's hit if there is one, a new hit
\* otherwise.
ProcessHits(coll, step) ==
  IF step.edep = 0 THEN coll
  ELSE LET i == FindHit(coll, step) IN
       IF i # 0
       THEN [coll EXCEPT ![i].edep = @ + step.edep]
       ELSE Append(coll, NewHit(step))

\* Initialize: a new, empty hits collection for the event.
Initialize(sd) == << >>

\* ---------------------------------------------------- DetectorConstruction
\* GDML files that exist on disk, and the names readFile may be given.
ExistingFiles == {"default.gdml", "b.gdml"}
FileNames == ExistingFiles \cup {"missing.gdml"}
NoWorld == "null"

\* The logical volumes the parser creates from a file.
LVsOf(file) ==
  IF file = "default.gdml" THEN {"lvA"}
  ELSE IF file = "b.gdml" THEN {"lvA", "lvB"}
  ELSE {}

\* std::map iterates its keys in order.
LVOrder == <<"lvA", "lvB">>

\* Construct: [world, attached, codes]: the world volume returned (the file
\* it was parsed from, or NoWorld), the SD attachments of the volume store
\* and the exception codes reported.  With no file name nothing is cleaned
\* or parsed.
Construct ==
  IF fGDMLFilename = ""
  THEN [world |-> NoWorld, attached |-> lvSD, codes |-> {"NoGDMLFile"}]
  ELSE LET world == IF fGDMLFilename \in ExistingFiles
                    THEN fGDMLFilename ELSE NoWorld
       IN [world |-> world,
           attached |-> [lv \in LVNames |-> NoSD],
           codes |-> IF world = NoWorld THEN {"WorldVolumeNotFound"} ELSE {}]

\* ConstructSDandField over the first n requests of the map: [attached,
\* sds].  A request for a volume that is not in the store is skipped; a
\* detector the SD manager already knows is attached again, a new one is
\* registered first.
RECURSIVE AttachSDs(_, _, _, _)
AttachSDs(n, store, attached, sds) ==
  IF n = 0 THEN [attached |-> attached, sds |-> sds]
  ELSE LET prev == AttachSDs(n - 1, store, attached, sds)
           lv == LVOrder[n]
           sd == fSensitiveDetectorsMap[lv]
       IN IF sd = NoSD \/ lv \notin store THEN prev
          ELSE [attached |-> [prev.attached EXCEPT ![lv] = sd],
                sds |-> IF \E i \in 1..Len(prev.sds) : prev.sds[i] = sd
                        THEN prev.sds ELSE Append(prev.sds, sd)]

ConstructSDandField(store, attached, sds) ==
  AttachSDs(Len(LVOrder), store, attached, sds)

\* /g4pet/detector/addSD: the request is stored; the run manager is not told.
SetSensitiveDetector(logicalVolumeName, sdName) ==
  /\ g4state \in {"PreInit", "Idle"}
  /\ nCmds < MaxCmds
  /\ nCmds' = nCmds + 1
  /\ fSensitiveDetectorsMap' =
       [fSensitiveDetectorsMap EXCEPT ![logicalVolumeName] = sdName]
  /\ UNCHANGED <<mainVars, trkVars, readMissing,
                 g4state, fGDMLFilename, fWorldVolume, exceptions, lvSD,
                 sdList, geometryInitialized, runVars, amVars,
                 fHitsCollectionIDs, evVars, nRuns>>

\* readFile with the stored name kept when the file cannot be opened.
SetGDMLFile_KeepName(filename) ==
  /\ g4state \in {"PreInit", "Idle"}
  /\ nCmds < MaxCmds
  /\ nCmds' = nCmds + 1
  /\ readMissing' = (filename \notin ExistingFiles)
  /\ IF filename \notin ExistingFiles
     THEN /\ exceptions' = exceptions \cup {"InvalidFileName"}
          /\ UNCHANGED fGDMLFilename
     ELSE /\ fGDMLFilename' = filename
          /\ UNCHANGED exceptions
  /\ UNCHANGED <<mainVars, trkVars,
                 g4state, fSensitiveDetectorsMap, fWorldVolume, lvSD,
                 sdList, geometryInitialized, runVars, amVars,
                 fHitsCollectionIDs, evVars, nRuns>>

\* /g4pet/detector/readFile: a file that cannot be opened is reported and
\* the stored name emptied; otherwise the name is stored.  The run manager
\* is not told.  (G4Exception is taken to return: the exception handler in
\* place does not end the program.)
SetGDMLFile(filename) ==
  /\ g4state \in {"PreInit", "Idle"}
  /\ nCmds < MaxCmds
  /\ nCmds' = nCmds + 1
  /\ readMissing' = (filename \notin ExistingFiles)
  /\ IF filename \notin ExistingFiles
     THEN /\ exceptions' = exceptions \cup {"InvalidFileName"}
          /\ fGDMLFilename' = ""
     ELSE /\ fGDMLFilename' = filename
          /\ UNCHANGED exceptions
  /\ UNCHANGED <<mainVars, trkVars,
                 g4state, fSensitiveDetectorsMap, fWorldVolume, lvSD,
                 sdList, geometryInitialized, runVars, amVars,
                 fHitsCollectionIDs, evVars, nRuns>>

\* The run manager (re)initialises the geometry when it is not up to date:
\* it calls Construct and, given a world volume, ConstructSDandField.
InitializeGeometry ==
  /\ g4state \in {"PreInit", "Idle"}
  /\ ~geometryInitialized
  /\ LET c == Construct IN
     /\ exceptions' = exceptions \cup c.codes
     /\ IF c.world = NoWorld
        THEN /\ fWorldVolume' = IF fGDMLFilename = ""
                                THEN fWorldVolume ELSE NoWorld
             /\ lvSD' = c.attached
             /\ UNCHANGED <<sdList, geometryInitialized, g4state>>
        ELSE LET a == ConstructSDandField(LVsOf(c.world), c.attached, sdList)
             IN /\ fWorldVolume' = c.world
                /\ lvSD' = a.attached
                /\ sdList' = a.sds
                /\ geometryInitialized' = TRUE
                /\ g4state' = "Idle"
  /\ UNCHANGED <<mainVars, trkVars, readMissing,
                 fGDMLFilename, fSensitiveDetectorsMap, runVars, amVars,
                 fHitsCollectionIDs, evVars, nCmds, nRuns>>

\* The toolkit's own /run/reinitializeGeometry command, which the two
\* detector commands name but do not issue.
ReinitializeGeometry ==
  /\ g4state = "Idle"
  /\ geometryInitialized
  /\ nCmds < MaxCmds
  /\ nCmds' = nCmds + 1
  /\ geometryInitialized' = FALSE
  /\ UNCHANGED <<mainVars, trkVars, readMissing,
                 g4state, fGDMLFilename, fSensitiveDetectorsMap, fWorldVolume,
                 exceptions, lvSD, sdList, runVars, amVars,
                 fHitsCollectionIDs, evVars, nRuns>>

\* --------------------------------------------------------------- RunAction
Col(name, type) == [name |-> name, type |-> type]

\* The columns BeginOfRunAction creates, in creation order (column index =
\* position - 1).
TracksColumns ==
  << Col("EventID", "I"), Col("ParticleName", "S"), Col("TrackID", "I"),
     Col("ParentID", "I"), Col("Mass", "D"),
     Col("InitialPosX", "D"), Col("InitialPosY", "D"), Col("InitialPosZ", "D"),
     Col("InitialTime", "D"),
     Col("FinalPosX", "D"), Col("FinalPosY", "D"), Col("FinalPosZ", "D"),
     Col("FinalTime", "D"),
     Col("InitialMomX", "D"), Col("InitialMomY", "D"), Col("InitialMomZ", "D"),
     Col("FinalMomX", "D"), Col("FinalMomY", "D"), Col("FinalMomZ", "D"),
     Col("InitialVolume", "S"), Col("FinalVolume", "S"),
     Col("CreatorProcess", "S") >>

HitsColumns ==
  << Col("EventID", "I"), Col("CopyNo", "I"), Col("ParticleName", "S"),
     Col("TrackID", "I"), Col("ParentID", "I"), Col("Edep", "D"),
     Col("PosX", "D"), Col("PosY", "D"), Col("PosZ", "D"), Col("Time", "D") >>

\* G4UIcommand::ConvertToBool: the upper-cased value is one of Y, YES, 1, T,
\* TRUE.
BoolStrings == {"true", "false", "1", "0"}
ConvertToBool(newValue) == newValue \in {"true", "1", "y", "yes", "t"}

\* G4UIcmdWithADoubleAndUnit::GetNewDoubleValue: the number times the value
\* of its unit (keV = 1 here).
EnergyStrings == [val : {0, 2}, unit : {"keV", "MeV"}]
UnitValue(unit) == IF unit = "MeV" THEN 1000 ELSE 1
GetNewDoubleValue(newValue) == newValue.val * UnitValue(newValue.unit)

SetNewValue(command, newValue) ==
  /\ g4state \in {"PreInit", "Idle"}
  /\ nCmds < MaxCmds
  /\ nCmds' = nCmds + 1
  /\ IF command = "saveParticles"
     THEN /\ fSaveParticles' = ConvertToBool(newValue)
          /\ UNCHANGED <<fSaveHits, fHitEnergyThreshold>>
     ELSE IF command = "saveHits"
     THEN /\ fSaveHits' = ConvertToBool(newValue)
          /\ UNCHANGED <<fSaveParticles, fHitEnergyThreshold>>
     ELSE IF command = "hitEnergyThreshold"
     THEN /\ fHitEnergyThreshold' = GetNewDoubleValue(newValue)
          /\ UNCHANGED <<fSaveParticles, fSaveHits>>
     ELSE UNCHANGED runVars
  /\ UNCHANGED <<mainVars, trkVars, readMissing,
                 g4state, detVars, amVars, fHitsCollectionIDs, evVars, nRuns>>

\* ------------------------------------------------ the analysis manager
\* CreateNtuple followed by the CreateNtuple?Column calls: the new n-tuple
\* gets the next ID.
CreateNtuple(nts, name, cols) ==
  Append(nts, [name |-> name, cols |-> cols, finished |-> FALSE,
               rows |-> << >>])

FinishNtuple(nts, id) ==
  IF id + 1 \in 1..Len(nts)
  THEN [nts EXCEPT ![id + 1].finished = TRUE]
  ELSE nts

\* Fill?Column(id, col, value): the call, the n-tuple of that ID, whether
\* it has a column of that index and type, and the column it went into.
FillColumn(nts, id, f, row) ==
  LET there == /\ id + 1 \in 1..Len(nts)
               /\ f.col + 1 \in 1..Len(nts[id + 1].cols)
  IN [row |-> row, nt |-> id, col |-> f.col, type |-> f.type,
      what |-> f.what,
      table |-> IF id + 1 \in 1..Len(nts) THEN nts[id + 1].name ELSE "none",
      ok |-> there /\ nts[id + 1].cols[f.col + 1].type = f.type,
      into |-> IF there THEN nts[id + 1].cols[f.col + 1].name ELSE "none"]

\* AddNtupleRow(id): a row for the object the columns were filled from.
AddNtupleRow(nts, id, row) ==
  IF id + 1 \in 1..Len(nts)
  THEN [nts EXCEPT ![id + 1].rows = Append(@, row)]
  ELSE nts

RECURSIVE AddNtupleRows(_, _, _)
AddNtupleRows(nts, id, rows) ==
  IF rows = << >> THEN nts
  ELSE AddNtupleRows(AddNtupleRow(nts, id, Head(rows)), id, Tail(rows))

\* The Tracks n-tuple created without its Mass column.
CreateTracksNtuple_NoMass(nts) ==
  FinishNtuple(CreateNtuple(nts, "Tracks",
                            SubSeq(TracksColumns, 1, 4)
                              \o SubSeq(TracksColumns, 6, Len(TracksColumns))),
               0)

\* The Tracks n-tuple, finished as n-tuple 0.
CreateTracksNtuple(nts) ==
  FinishNtuple(CreateNtuple(nts, "Tracks", TracksColumns), 0)

\* The Hits n-tuple, finished as n-tuple fSaveParticles (1 or 0).
CreateHitsNtuple(nts) ==
  FinishNtuple(CreateNtuple(nts, "Hits", HitsColumns),
               IF fSaveParticles THEN 1 ELSE 0)

\* The n-tuples created whether or not saveHits is on.
RunNtuples_AlwaysHits(nts) ==
  CreateHitsNtuple(IF fSaveParticles THEN CreateTracksNtuple(nts) ELSE nts)

\* The n-tuples BeginOfRunAction creates.
RunNtuples(nts) ==
  LET t == IF fSaveParticles THEN CreateTracksNtuple(nts) ELSE nts
  IN IF fSaveHits THEN CreateHitsNtuple(t) ELSE t

\* BeginOfRunAction, called by the run manager when /run/beamOn n starts a
\* run: the file is opened, then the enabled n-tuples are created.  A file
\* name has been set (/analysis/setFileName), so that OpenFile succeeds.
BeginOfRunAction ==
  /\ g4state = "Idle"
  /\ geometryInitialized
  /\ nRuns < MaxRuns
  /\ nRuns' = nRuns + 1
  /\ \E n \in 0..MaxEvents : eventsToDo' = n
  /\ eventID' = 0
  /\ g4state' = "GeomClosed"
  /\ fileOpen' = TRUE
  /\ amCalls' = [amCalls EXCEPT !.open = @ + 1]
  /\ ntuples' = RunNtuples(ntuples)
  /\ UNCHANGED <<mainVars, trkVars, readMissing,
                 detVars, runVars, fills, fHitsCollectionIDs, fHitsCollection,
                 stepLog, nStepsInEvent, trajectoryContainer, trajLog, nCmds>>

\* Write and CloseFile act on an open file; CloseFile resets the manager,
\* which deletes its n-tuples.
Write(am) ==
  IF am.fileOpen THEN [am EXCEPT !.calls.write = @ + 1] ELSE am

CloseFile(am) ==
  IF am.fileOpen
  THEN [am EXCEPT !.fileOpen = FALSE, !.calls.close = @ + 1,
                  !.ntuples = << >>]
  ELSE am

\* EndOfRunAction with the file closed before it is written.
CloseAndWrite(am) == Write(CloseFile(am))

\* EndOfRunAction's calls: Write, then CloseFile.
WriteAndClose(am) == CloseFile(Write(am))

\* EndOfRunAction, called by the run manager after the last event, which
\* it has deleted.
EndOfRunAction ==
  /\ g4state = "GeomClosed"
  /\ eventsToDo = 0
  /\ g4state' = "Idle"
  /\ LET am == WriteAndClose([fileOpen |-> fileOpen, calls |-> amCalls,
                              ntuples |-> ntuples])
     IN /\ fileOpen' = am.fileOpen
        /\ amCalls' = am.calls
        /\ ntuples' = am.ntuples
  /\ fHitsCollection' = [sd \in SDNames |-> << >>]
  /\ stepLog' = << >>
  /\ nStepsInEvent' = 0
  /\ trajectoryContainer' = << >>
  /\ trajLog' = << >>
  /\ UNCHANGED <<mainVars, trkVars, readMissing,
                 detVars, runVars, fills, fHitsCollectionIDs, eventID,
                 eventsToDo, nCmds, nRuns>>

\* ------------------------------------------------------------- EventAction
Fill(type, col, what) == [type |-> type, col |-> col, what |-> what]

\* The Fill?Column calls EndOfEventAction makes for one hit and for one
\* trajectory: the type of the call, the column index and the quantity.
HitsFill ==
  << Fill("I", 0, "EventID"), Fill("S", 1, "DetectorName"),
     Fill("S", 2, "PhysicalVolumeName"), Fill("S", 3, "VolumeName"),
     Fill("I", 4, "CopyNo"), Fill("S", 5, "ParticleName"),
     Fill("I", 6, "TrackID"), Fill("I", 7, "ParentID"),
     Fill("D", 8, "Edep"), Fill("D", 9, "PosX"), Fill("D", 10, "PosY"),
     Fill("D", 11, "PosZ"), Fill("D", 12, "Time") >>

TracksFill ==
  << Fill("I", 0, "EventID"), Fill("S", 1, "ParticleName"),
     Fill("I", 2, "TrackID"), Fill("I", 3, "ParentID"), Fill("D", 4, "Mass"),
     Fill("D", 5, "InitialPosX"), Fill("D", 6, "InitialPosY"),
     Fill("D", 7, "InitialPosZ"), Fill("D", 8, "InitialTime"),
     Fill("D", 9, "FinalPosX"), Fill("D", 10, "FinalPosY"),
     Fill("D", 11, "FinalPosZ"), Fill("D", 12, "FinalTime"),
     Fill("D", 13, "InitialMomX"), Fill("D", 14, "InitialMomY"),
     Fill("D", 15, "InitialMomZ"), Fill("D", 16, "FinalMomX"),
     Fill("D", 17, "FinalMomY"), Fill("D", 18, "FinalMomZ"),
     Fill("S", 19, "InitialVolume"), Fill("S", 20, "FinalVolume"),
     Fill("S", 21, "CreatorProcess") >>

\* The n-tuple ID with the two cases exchanged.
HitsNtupleID_Swapped == IF fSaveParticles THEN 0 ELSE 1

\* The n-tuple ID EndOfEventAction writes hit rows into.
HitsNtupleID == IF fSaveParticles THEN 1 ELSE 0

\* What reading fHitsCollectionIDs[0] yields.  On an empty vector the read
\* is out of bounds: the freed slot may still hold -1, or anything else.
FirstID ==
  IF fHitsCollectionIDs # << >> THEN {fHitsCollectionIDs[1]} ELSE {-1, 0}

\* The collection IDs of all entries of the hits-collection table: entry i
\* has ID i.
CollectionIDs == [i \in 1..Len(sdList) |-> i - 1]

\* The list of IDs after the first-event test.
PopulateIDs(first) ==
  IF first = -1 THEN CollectionIDs ELSE fHitsCollectionIDs

\* hce->GetHC(cID): the collection of the detector with that ID, empty when
\* the event has none.
GetHC(cID) ==
  IF cID + 1 \in 1..Len(sdList) THEN fHitsCollection[sdList[cID + 1]]
  ELSE << >>

HitRow(hit) == [kind |-> "hit", edep |-> hit.edep]

\* The rows of the hits of one collection that are written.
RowsOfCollection(coll) == [i \in 1..Len(coll) |-> HitRow(coll[i])]

RECURSIVE HitRows(_)
HitRows(ids) ==
  IF ids = << >> THEN << >>
  ELSE RowsOfCollection(GetHC(Head(ids))) \o HitRows(Tail(ids))

TrackRows ==
  [i \in 1..Len(trajectoryContainer) |->
     [kind |-> "track", track |-> trajectoryContainer[i].fTrackID]]

\* EndOfEventAction: hit rows when saveHits is on, then track rows when
\* saveParticles is on.  (WriteTracksToFile, which follows, writes a text
\* file and changes nothing modelled here.)
EndOfEventAction ==
  /\ g4state = "EventProc"
  /\ \E first \in FirstID :
       LET ids == IF fSaveHits THEN PopulateIDs(first)
                  ELSE fHitsCollectionIDs
           hitRows == IF fSaveHits THEN HitRows(ids) ELSE << >>
           hitFills ==
             IF hitRows = << >> THEN {}
             ELSE {FillColumn(ntuples, HitsNtupleID, HitsFill[k], "hit") :
                     k \in 1..Len(HitsFill)}
           nt1 == AddNtupleRows(ntuples, HitsNtupleID, hitRows)
           trackRows == IF fSaveParticles THEN TrackRows ELSE << >>
           trackFills ==
             IF trackRows = << >> THEN {}
             ELSE {FillColumn(nt1, 0, TracksFill[k], "track") :
                     k \in 1..Len(TracksFill)}
       IN /\ fHitsCollectionIDs' = ids
          /\ ntuples' = AddNtupleRows(nt1, 0, trackRows)
          /\ fills' = fills \cup hitFills \cup trackFills
  /\ g4state' = "GeomClosed"
  /\ eventID' = eventID + 1
  /\ eventsToDo' = eventsToDo - 1
  /\ UNCHANGED <<mainVars, trkVars, readMissing,
                 detVars, runVars, fileOpen, amCalls, fHitsCollection,
                 stepLog, nStepsInEvent, trajectoryContainer, trajLog, nCmds,
                 nRuns>>

\* ------------------------------------------------------- the event loop
RegisteredSDs == {sdList[i] : i \in 1..Len(sdList)}

\* The event manager starts an event, the previous one having been deleted:
\* every registered detector gets Initialize; EventAction::BeginOfEventAction
\* itself does nothing.
BeginOfEventAction ==
  /\ g4state = "GeomClosed"
  /\ eventsToDo > 0
  /\ g4state' = "EventProc"
  /\ fHitsCollection' =
       [sd \in SDNames |->
          IF sd \in RegisteredSDs THEN Initialize(sd) ELSE << >>]
  /\ stepLog' = << >>
  /\ nStepsInEvent' = 0
  /\ trajectoryContainer' = << >>
  /\ trajLog' = << >>
  /\ UNCHANGED <<mainVars, trkVars, readMissing,
                 detVars, runVars, amVars, fHitsCollectionIDs, eventID,
                 eventsToDo, nCmds, nRuns>>

\* The detector of the step's logical volume gets ProcessHits.
StepInSD(sd, step) ==
  /\ fHitsCollection' =
       [fHitsCollection EXCEPT ![sd] = ProcessHits(@, step)]
  /\ stepLog' = Append(stepLog, step)
  /\ nStepsInEvent' = nStepsInEvent + 1
  /\ UNCHANGED <<mainVars, trkVars, readMissing,
                 g4state, detVars, runVars, amVars, fHitsCollectionIDs,
                 eventID, eventsToDo, trajectoryContainer, trajLog, nCmds,
                 nRuns>>

\* A step of the track in progress, in a volume of the constructed
\* geometry that has a detector attached.
EventSteps ==
  {s \in Steps : /\ s.lv \in LVsOf(fWorldVolume)
                 /\ lvSD[s.lv] # NoSD
                 /\ s.pv = "pvA" /\ s.replica = 0 /\ s.volCopy = 0
                 /\ s.track = Len(trajectoryContainer)}

EventStep ==
  /\ g4state = "EventProc"
  /\ nStepsInEvent < MaxEventSteps
  /\ \E step \in EventSteps : StepInSD(lvSD[step.lv], step)

\* --------------------------------------------------------- trajectories
\* Positions and momenta are points of a line; momentum 0 is (0,0,0).
Positions == {0, 1}
Momenta == {0, 1, 2}

\* The numbers of secondaries one step may make.
SecondaryCounts == {0, 1, 2}

\* A pointer is << >> when null and <<value>> otherwise.
Null == << >>

\* A primary track as the event manager makes it from the primary vertex:
\* no parent, no creator process, no user information.
PrimaryTrack(id, position, momentum) ==
  [id |-> id, parent |-> 0, position |-> position, vertex |-> position,
   momentum |-> momentum, creator |-> Null, userInfo |-> Null,
   parentAtVertex |-> Null]

\* A secondary as a process of the stepping track makes it at the
\* post-step point, where the parent has the momentum the step left it.
SecondaryTrack(id, parent) ==
  [id |-> id, parent |-> parent.id, position |-> parent.position,
   vertex |-> parent.position, momentum |-> 1, creator |-> <<"process">>,
   userInfo |-> Null, parentAtVertex |-> <<parent.momentum>>]

\* AirPetTrajectory(aTrack): the members the constructor sets, the final
\* ones default-constructed, and the track's position as point 0.
AirPetTrajectory(aTrack) ==
  [fTrackID |-> aTrack.id, fParentID |-> aTrack.parent,
   fMomentumInit |-> aTrack.momentum, fPositionInit |-> aTrack.vertex,
   fParentMomentum |-> 0,
   fCreatorProcess |-> IF aTrack.creator # Null THEN aTrack.creator[1]
                       ELSE "primary",
   fPositionRecord |-> << aTrack.position >>,
   fMomentumFinal |-> 0, fPositionFinal |-> 0]

SetParentMomentum(traj, p) == [traj EXCEPT !.fParentMomentum = p]

\* AppendStep recording the pre-step position.
AppendStep_PreStep(traj, aStep) ==
  [traj EXCEPT !.fPositionRecord = Append(@, aStep.prePosition)]

\* AppendStep: the post-step position becomes the last point.
AppendStep(traj, aStep) ==
  [traj EXCEPT !.fPositionRecord = Append(@, aStep.postPosition)]

GetPointEntries(traj) == Len(traj.fPositionRecord)

\* The loop of MergeTrajectory: for (i = from; i < ent; ++i) the second
\* record's element i (counted from 0) is pushed back.
RECURSIVE PushBackFrom(_, _, _, _)
PushBackFrom(record, second, i, ent) ==
  IF i >= ent THEN record
  ELSE PushBackFrom(Append(record, second[i + 1]), second, i + 1, ent)

\* The points MergeTrajectory leaves in this trajectory, the first point of
\* the second one not skipped.
MergedRecord_FromZero(this, seco) ==
  PushBackFrom(this.fPositionRecord, seco.fPositionRecord, 0,
               GetPointEntries(seco))

\* The points MergeTrajectory leaves in this trajectory.
MergedRecord(this, seco) ==
  PushBackFrom(this.fPositionRecord, seco.fPositionRecord, 1,
               GetPointEntries(seco))

\* The trajectory PreUserTrackingAction would make, did it not look at the
\* track's user information.
NewTrajectory_NoInfo(aTrack) ==
  SetParentMomentum(AirPetTrajectory(aTrack), 0)

\* The trajectory PreUserTrackingAction gives the tracking manager: built
\* from the track, with the parent momentum of the track's user information
\* if it has one.
NewTrajectory(aTrack) ==
  IF aTrack.userInfo # Null
  THEN SetParentMomentum(AirPetTrajectory(aTrack), aTrack.userInfo[1])
  ELSE AirPetTrajectory(aTrack)

\* UserSteppingAction: the secondaries of the step, each with a new user
\* information that holds the momentum of the stepping track.
UserSteppingAction(step) ==
  [k \in 1..Len(step.secondaries) |->
     [step.secondaries[k] EXCEPT !.userInfo = <<step.track.momentum>>]]

\* PostUserTrackingAction: the final momentum and position of the track.
SetFinal(traj, aTrack) ==
  [traj EXCEPT !.fMomentumFinal = aTrack.momentum,
               !.fPositionFinal = aTrack.position]

\* The trajectory of a track is kept by the event from the start of the
\* track; what it was built from is logged.
StartTrajectory(aTrack) ==
  /\ trajectoryContainer' = Append(trajectoryContainer, NewTrajectory(aTrack))
  /\ trajLog' = Append(trajLog, [track |-> aTrack,
                                 created |-> aTrack.position,
                                 appended |-> << >>, merged |-> FALSE])

\* PreUserTrackingAction for the next primary track of the event: every
\* track gets a trajectory, which the event keeps.
PreUserTrackingAction ==
  /\ g4state = "EventProc"
  /\ Len(trajectoryContainer) < MaxTracks
  /\ StartTrajectory(PrimaryTrack(Len(trajectoryContainer) + 1, 0, 1))
  /\ UNCHANGED <<mainVars, trkVars, readMissing,
                 g4state, detVars, runVars, amVars, fHitsCollectionIDs,
                 eventID, eventsToDo, fHitsCollection, stepLog, nStepsInEvent,
                 nCmds, nRuns>>

\* -------------------------------------------------------------------- main
\* An environment variable is << >> when unset and <<value>> when set; a
\* pointer to a physics list is << >> when null and <<name>> otherwise.
NotSet == << >>
NullList == << >>

\* The reference physics lists G4PhysListFactory knows, and the values the
\* two environment variables may have when the program is started.
KnownPhysLists == {"FTFP_BERT", "QGSP_BERT", "QBBC", "FTFP_BERT_EMZ"}
PhysListSettings ==
  {NotSet} \cup {<<n>> : n \in KnownPhysLists \cup {"", "ftfp_bert", "MyList"}}
OpticalSettings == {NotSet} \cup {<<v>> : v \in {"on", "true", "off", "ON"}}

\* G4PhysListFactory::GetReferencePhysList: the list of that name, null for
\* a name the factory does not know.
GetReferencePhysList(name) ==
  IF name \in KnownPhysLists THEN <<name>> ELSE NullList

\* The list main goes on with, had it no test for a null list.
OrFallBack_NoTest(list) ==
  IF list = NullList THEN NullList ELSE list

\* The list main goes on with: FTFP_BERT in place of a null list.
OrFallBack(list) ==
  IF list = NullList THEN GetReferencePhysList("FTFP_BERT") ELSE list

\* main.cc 39-44: the name is FTFP_BERT unless G4PHYSICSLIST is set.
ReadPhysListName ==
  /\ pc = "start"
  /\ pc' = "named"
  /\ physListName' =
       IF G4PHYSICSLIST # NotSet THEN G4PHYSICSLIST[1] ELSE "FTFP_BERT"
  /\ UNCHANGED <<g4state, detVars, runVars, amVars, fHitsCollectionIDs,
                 evVars, nCmds, nRuns, readMissing, trkVars, G4PHYSICSLIST,
                 G4OPTICALPHYSICS, physicsList, opticalRegistered,
                 userPhysicsList>>

\* main.cc 46-50: the factory is asked for the list of that name, and for
\* FTFP_BERT when it returns null.
CreatePhysicsList ==
  /\ pc = "named"
  /\ pc' = "created"
  /\ physicsList' = OrFallBack(GetReferencePhysList(physListName))
  /\ UNCHANGED <<g4state, detVars, runVars, amVars, fHitsCollectionIDs,
                 evVars, nCmds, nRuns, readMissing, trkVars, G4PHYSICSLIST,
                 G4OPTICALPHYSICS, physListName, opticalRegistered,
                 userPhysicsList>>

\* main.cc 52-57: with G4OPTICALPHYSICS "on" or "true" the optical physics
\* is registered in the list.  RegisterPhysics is called through the
\* pointer: with a null list the program ends here.
RegisterOpticalPhysics ==
  /\ pc = "created"
  /\ IF G4OPTICALPHYSICS \in {<<"on">>, <<"true">>}
     THEN IF physicsList = NullList
          THEN pc' = "crashed" /\ UNCHANGED opticalRegistered
          ELSE pc' = "optical" /\ opticalRegistered' = TRUE
     ELSE pc' = "optical" /\ UNCHANGED opticalRegistered
  /\ UNCHANGED <<g4state, detVars, runVars, amVars, fHitsCollectionIDs,
                 evVars, nCmds, nRuns, readMissing, trkVars, G4PHYSICSLIST,
                 G4OPTICALPHYSICS, physListName, physicsList,
                 userPhysicsList>>

\* main.cc 59: the list is handed to the run manager; the session follows.
SetUserInitialization ==
  /\ pc = "optical"
  /\ pc' = "session"
  /\ userPhysicsList' = physicsList
  /\ UNCHANGED <<g4state, detVars, runVars, amVars, fHitsCollectionIDs,
                 evVars, nCmds, nRuns, readMissing, trkVars, G4PHYSICSLIST,
                 G4OPTICALPHYSICS, physListName, physicsList,
                 opticalRegistered>>

\* ------------------------------------------------------ the session
\* The objects main and ActionInitialization construct, before any command.
Constructed ==
  /\ g4state = "PreInit"
  /\ geometryInitialized = FALSE
  /\ fGDMLFilename = "default.gdml"
  /\ fSensitiveDetectorsMap = [lv \in LVNames |-> NoSD]
  /\ fWorldVolume = NoWorld
  /\ exceptions = {}
  /\ lvSD = [lv \in LVNames |-> NoSD]
  /\ sdList = << >>
  /\ fSaveParticles = FALSE
  /\ fSaveHits = TRUE
  /\ fHitEnergyThreshold = 0
  /\ fileOpen = FALSE
  /\ ntuples = << >>
  /\ fills = {}
  /\ amCalls = [open |-> 0, write |-> 0, close |-> 0]
  /\ fHitsCollectionIDs = << -1 >>
  /\ eventID = 0
  /\ eventsToDo = 0
  /\ fHitsCollection = [sd \in SDNames |-> << >>]
  /\ stepLog = << >>
  /\ nStepsInEvent = 0
  /\ trajectoryContainer = << >>
  /\ nCmds = 0
  /\ nRuns = 0
  /\ readMissing = FALSE
  /\ trajLog = << >>
  /\ lastMerge = << >>
  /\ fpTrack = << >>
  /\ trackStack = << >>

\* The program as main leaves it to the session when it was started with
\* neither environment variable set.
Started ==
  /\ pc = "session"
  /\ G4PHYSICSLIST = NotSet
  /\ G4OPTICALPHYSICS = NotSet
  /\ physListName = "FTFP_BERT"
  /\ physicsList = <<"FTFP_BERT">>
  /\ opticalRegistered = FALSE
  /\ userPhysicsList = <<"FTFP_BERT">>

Init == Constructed /\ Started

\* The program as it is started: the environment is any of the settings.
InitMain ==
  /\ Constructed
  /\ pc = "start"
  /\ G4PHYSICSLIST \in PhysListSettings
  /\ G4OPTICALPHYSICS \in OpticalSettings
  /\ physListName = "FTFP_BERT"
  /\ physicsList = NullList
  /\ opticalRegistered = FALSE
  /\ userPhysicsList = NullList

NextMain ==
  \/ ReadPhysListName
  \/ CreatePhysicsList
  \/ RegisterOpticalPhysics
  \/ SetUserInitialization

SpecMain == InitMain /\ [][NextMain]_vars

DetectorCommand ==
  \/ \E lv \in LVNames, sd \in SDNames : SetSensitiveDetector(lv, sd)
  \/ \E f \in FileNames : SetGDMLFile(f)

RunCommand ==
  \/ \E v \in BoolStrings : SetNewValue("saveParticles", v)
  \/ \E v \in BoolStrings : SetNewValue("saveHits", v)
  \/ \E v \in EnergyStrings : SetNewValue("hitEnergyThreshold", v)

Next ==
  \/ DetectorCommand
  \/ RunCommand
  \/ InitializeGeometry
  \/ ReinitializeGeometry
  \/ BeginOfRunAction
  \/ BeginOfEventAction
  \/ EventStep
  \/ PreUserTrackingAction
  \/ EndOfEventAction
  \/ EndOfRunAction

Spec == Init /\ [][Next]_vars

\* ------------------------------------------- one detector within an event
\* A session in the middle of an event: b.gdml was read, both logical
\* volumes were given the detector sd1, and the first event of the first
\* run has begun.
InitSD ==
  /\ g4state = "EventProc"
  /\ geometryInitialized = TRUE
  /\ fGDMLFilename = "b.gdml"
  /\ fSensitiveDetectorsMap = [lv \in LVNames |-> "sd1"]
  /\ fWorldVolume = "b.gdml"
  /\ exceptions = {}
  /\ lvSD = [lv \in LVNames |-> "sd1"]
  /\ sdList = << "sd1" >>
  /\ fSaveParticles = FALSE
  /\ fSaveHits = TRUE
  /\ fHitEnergyThreshold = 0
  /\ fileOpen = TRUE
  /\ ntuples = FinishNtuple(CreateNtuple(<< >>, "Hits", HitsColumns), 0)
  /\ fills = {}
  /\ amCalls = [open |-> 1, write |-> 0, close |-> 0]
  /\ fHitsCollectionIDs = << -1 >>
  /\ eventID = 0
  /\ eventsToDo = 1
  /\ fHitsCollection = [sd \in SDNames |-> << >>]
  /\ stepLog = << >>
  /\ nStepsInEvent = 0
  /\ trajectoryContainer = << >>
  /\ nCmds = 3
  /\ nRuns = 1
  /\ readMissing = FALSE
  /\ trajLog = << >>
  /\ lastMerge = << >>
  /\ fpTrack = << >>
  /\ trackStack = << >>
  /\ Started

\* Initialize of sd1, as the next event begins.
DetectorInitialize ==
  /\ g4state = "EventProc"
  /\ fHitsCollection' = [fHitsCollection EXCEPT !["sd1"] = Initialize("sd1")]
  /\ stepLog' = << >>
  /\ nStepsInEvent' = 0
  /\ UNCHANGED <<mainVars, trkVars, readMissing,
                 g4state, detVars, runVars, amVars, fHitsCollectionIDs,
                 eventID, eventsToDo, trajectoryContainer, trajLog, nCmds,
                 nRuns>>

\* ProcessHits of sd1 for any step in one of its volumes.
DetectorStep ==
  /\ g4state = "EventProc"
  /\ Len(stepLog) < MaxSteps
  /\ \E step \in Steps : StepInSD("sd1", step)

NextSD == DetectorInitialize \/ DetectorStep

SpecSD == InitSD /\ [][NextSD]_vars

\* ------------------------------------------------ tracking within an event
\* The trajectory of the track in progress is the one made last.
Current == Len(trajectoryContainer)

\* Track IDs are given in the order in which the tracks are made.
TracksMade == Len(trajectoryContainer) + Len(trackStack)

\* GeneratePrimaries: the particle source gives the event a primary, which
\* waits on the stack.
GeneratePrimaries ==
  /\ g4state = "EventProc"
  /\ trajectoryContainer = << >> /\ trackStack = << >> /\ fpTrack = Null
  /\ \E position \in Positions :
       trackStack' = << PrimaryTrack(1, position, 2) >>
  /\ lastMerge' = << >>
  /\ UNCHANGED <<g4state, detVars, runVars, amVars, fHitsCollectionIDs,
                 evVars, nCmds, nRuns, readMissing, fpTrack, mainVars>>

\* The track on top of the stack is taken and PreUserTrackingAction called
\* for it.
TrackBegins ==
  /\ g4state = "EventProc"
  /\ fpTrack = Null
  /\ trackStack # << >>
  /\ LET aTrack == trackStack[Len(trackStack)] IN
       /\ fpTrack' = << aTrack >>
       /\ StartTrajectory(aTrack)
  /\ trackStack' = SubSeq(trackStack, 1, Len(trackStack) - 1)
  /\ lastMerge' = << >>
  /\ UNCHANGED <<g4state, detVars, runVars, amVars, fHitsCollectionIDs,
                 eventID, eventsToDo, fHitsCollection, stepLog, nStepsInEvent,
                 nCmds, nRuns, readMissing, mainVars>>

\* One step of the track in progress, which moves while it has momentum
\* and does not gain any: the toolkit moves the track, gives it its
\* momentum after the step and makes the secondaries; then
\* UserSteppingAction is called, the trajectory gets AppendStep and the
\* secondaries wait on the stack.
TrackStep(position, momentum, nSecondaries) ==
  /\ g4state = "EventProc"
  /\ fpTrack # Null
  /\ fpTrack[1].momentum > 0
  /\ momentum <= fpTrack[1].momentum
  /\ nStepsInEvent < MaxTrackSteps
  /\ TracksMade + nSecondaries <= MaxTrajectories
  /\ LET track == [fpTrack[1] EXCEPT !.position = position,
                                     !.momentum = momentum]
         step == [track |-> track,
                  prePosition |-> fpTrack[1].position,
                  postPosition |-> position,
                  preMomentum |-> fpTrack[1].momentum,
                  secondaries |->
                    [k \in 1..nSecondaries |->
                       SecondaryTrack(TracksMade + k, track)]]
     IN /\ fpTrack' = << track >>
        /\ trackStack' = trackStack \o UserSteppingAction(step)
        /\ trajectoryContainer' =
             [trajectoryContainer EXCEPT ![Current] = AppendStep(@, step)]
        /\ trajLog' =
             [trajLog EXCEPT ![Current].appended = Append(@, position)]
  /\ nStepsInEvent' = nStepsInEvent + 1
  /\ lastMerge' = << >>
  /\ UNCHANGED <<g4state, detVars, runVars, amVars, fHitsCollectionIDs,
                 eventID, eventsToDo, fHitsCollection, stepLog, nCmds, nRuns,
                 readMissing, mainVars>>

\* The track in progress ends and PostUserTrackingAction is called for it.
PostUserTrackingAction ==
  /\ g4state = "EventProc"
  /\ fpTrack # Null
  /\ trajectoryContainer' =
       [trajectoryContainer EXCEPT ![Current] = SetFinal(@, fpTrack[1])]
  /\ fpTrack' = Null
  /\ lastMerge' = << >>
  /\ UNCHANGED <<g4state, detVars, runVars, amVars, fHitsCollectionIDs,
                 eventID, eventsToDo, fHitsCollection, stepLog, nStepsInEvent,
                 trajLog, nCmds, nRuns, readMissing, trackStack, mainVars>>

\* What MergeTrajectory may be given once the tracks of the event are done:
\* null, a trajectory of another class, or an AirPetTrajectory of the event
\* (this one included).
SecondTrajectories ==
  {[class |-> "null", index |-> 0], [class |-> "G4Trajectory", index |-> 0]}
    \cup {[class |-> "AirPetTrajectory", index |-> j] :
            j \in 1..Len(trajectoryContainer)}

\* MergeTrajectory of trajectory i: nothing for null or another class;
\* otherwise the second's points from 1 on are pushed back, its element 0
\* is set to null and its record is cleared.  For a second trajectory
\* without points element 0 is outside the vector: the write goes
\* unnoticed or ends the program.
MergeTrajectory(i, secondTrajectory) ==
  /\ g4state = "EventProc"
  /\ fpTrack = Null /\ trackStack = << >>
  /\ ~trajLog[i].merged
  /\ IF secondTrajectory.class # "AirPetTrajectory"
     THEN /\ lastMerge' = << >>
          /\ UNCHANGED <<g4state, trajectoryContainer, trajLog>>
     ELSE LET j == secondTrajectory.index
              this == trajectoryContainer[i]
              seco == trajectoryContainer[j]
          IN /\ lastMerge' = << i, j >>
             /\ trajectoryContainer' =
                  [[trajectoryContainer
                      EXCEPT ![i].fPositionRecord = MergedRecord(this, seco)]
                      EXCEPT ![j].fPositionRecord = << >>]
             /\ trajLog' = [trajLog EXCEPT ![i].merged = TRUE,
                                           ![j].merged = TRUE]
             /\ g4state' \in IF GetPointEntries(seco) = 0
                             THEN {"EventProc", "Abort"} ELSE {"EventProc"}
  /\ UNCHANGED <<detVars, runVars, amVars, fHitsCollectionIDs, eventID,
                 eventsToDo, fHitsCollection, stepLog, nStepsInEvent, nCmds,
                 nRuns, readMissing, fpTrack, trackStack, mainVars>>

\* The event is deleted when all its tracks are done, and with it its
\* trajectories and their points.
DeleteTrajectories ==
  /\ g4state = "EventProc"
  /\ fpTrack = Null /\ trackStack = << >>
  /\ trajectoryContainer # << >>
  /\ trajectoryContainer' = << >>
  /\ trajLog' = << >>
  /\ nStepsInEvent' = 0
  /\ lastMerge' = << >>
  /\ UNCHANGED <<g4state, detVars, runVars, amVars, fHitsCollectionIDs,
                 eventID, eventsToDo, fHitsCollection, stepLog, nCmds, nRuns,
                 readMissing, fpTrack, trackStack, mainVars>>

NextTrk ==
  \/ GeneratePrimaries
  \/ TrackBegins
  \/ \E position \in Positions, momentum \in Momenta,
        nSecondaries \in SecondaryCounts :
       TrackStep(position, momentum, nSecondaries)
  \/ PostUserTrackingAction
  \/ \E i \in 1..Len(trajectoryContainer),
        secondTrajectory \in SecondTrajectories :
       MergeTrajectory(i, secondTrajectory)
  \/ DeleteTrajectories

SpecTrk == InitSD /\ [][NextTrk]_vars

\* ------------------------------------------------------------- properties
Crystal(x) == <<x.pv, x.lv, x.copyNo>>
CrystalOfStep(step) == <<step.pv, step.lv, CopyNoOf(step)>>
Depositing == {k \in 1..Len(stepLog) : stepLog[k].edep # 0}

\* C1: between two Initialize calls of a detector, whatever steps
\* ProcessHits was given, its collection holds at most one hit for each
\* (physical volume name, logical volume name, copy number).
C1_OneHitPerCrystal ==
  \A sd \in SDNames :
    \A i, j \in 1..Len(fHitsCollection[sd]) :
      Crystal(fHitsCollection[sd][i]) = Crystal(fHitsCollection[sd][j])
        => i = j

\* Two depositing steps in the same crystal, one identified by its replica
\* number and one by the volume's copy number, left a single hit.
C1_Witness ==
  /\ Len(fHitsCollection["sd1"]) = 1
  /\ \E k, l \in Depositing :
       /\ k < l
       /\ CrystalOfStep(stepLog[k]) = CrystalOfStep(stepLog[l])
       /\ stepLog[k].replica = 0
       /\ stepLog[l].replica # 0

RECURSIVE DepositIn(_, _)
DepositIn(crystal, n) ==
  IF n = 0 THEN 0
  ELSE DepositIn(crystal, n - 1)
         + (IF CrystalOfStep(stepLog[n]) = crystal THEN stepLog[n].edep ELSE 0)

RECURSIVE TotalEdep(_)
TotalEdep(xs) == IF xs = << >> THEN 0 ELSE Head(xs).edep + TotalEdep(Tail(xs))

\* C16: at any point within an event the energy of each crystal's hit is
\* the sum of the energy deposits of the steps processed so far in that
\* crystal (physical volume name, logical volume name, copy number), a
\* crystal that received energy has a hit, and the energy summed over the
\* collection is the energy deposited by all processed steps.
C16_EnergyPerCrystal ==
  LET coll == fHitsCollection["sd1"] IN
  /\ \A i \in 1..Len(coll) :
       coll[i].edep = DepositIn(Crystal(coll[i]), Len(stepLog))
  /\ \A k \in Depositing :
       \E i \in 1..Len(coll) : Crystal(coll[i]) = CrystalOfStep(stepLog[k])
  /\ TotalEdep(coll) = TotalEdep(stepLog)

\* Two steps deposited 1 and 2 in one crystal, whose hit holds 3.
C16_Witness ==
  /\ Len(stepLog) = 2
  /\ stepLog[1].edep = 1 /\ stepLog[2].edep = 2
  /\ CrystalOfStep(stepLog[1]) = CrystalOfStep(stepLog[2])
  /\ Len(fHitsCollection["sd1"]) = 1
  /\ fHitsCollection["sd1"][1].edep = 3

InRun == g4state \in {"GeomClosed", "EventProc"}
NtupleIDs == 0..(Len(ntuples) - 1)
Rows(id) == {ntuples[id + 1].rows[k] : k \in 1..Len(ntuples[id + 1].rows)}
AllRows == UNION {Rows(id) : id \in NtupleIDs}
HitFills == {f \in fills : f.row = "hit"}
TrackFills == {f \in fills : f.row = "track"}

\* C3 as stated: every column EndOfEventAction fills for a hit row is a
\* column BeginOfRunAction created in the Hits n-tuple, with the same index,
\* type and meaning.
C3_HitsFilledAsDefined ==
  \A f \in HitFills : f.table = "Hits" /\ f.ok /\ f.into = f.what

\* C4: every column EndOfEventAction fills for a trajectory row is a column
\* BeginOfRunAction created in the Tracks n-tuple, with the same index, type
\* and meaning; 22 are filled and no created column is left unfilled.
C4_TracksFilledAsDefined ==
  /\ \A f \in TrackFills : f.table = "Tracks" /\ f.ok /\ f.into = f.what
  /\ TrackFills # {} =>
       /\ Cardinality({<<f.col, f.type>> : f \in TrackFills}) = 22
       /\ \A id \in NtupleIDs :
            ntuples[id + 1].name = "Tracks" /\ ntuples[id + 1].rows # << >> =>
              \A c \in 1..Len(ntuples[id + 1].cols) :
                \E f \in TrackFills : f.col = c - 1

\* A trajectory row was added to the Tracks n-tuple.
C4_Witness ==
  \E id \in NtupleIDs :
    /\ ntuples[id + 1].name = "Tracks"
    /\ \E r \in Rows(id) : r.kind = "track"
    /\ TrackFills # {}

\* C5: in every run the n-tuple with ID 1 (saveParticles on) or 0 (off) is
\* the Hits n-tuple of that run and is where the hit rows are, and with
\* saveParticles on n-tuple 0 is the Tracks n-tuple and holds only
\* trajectory rows.
C5_HitsNtupleID ==
  InRun =>
    /\ fSaveHits =>
         LET id == IF fSaveParticles THEN 1 ELSE 0 IN
         /\ id \in NtupleIDs
         /\ ntuples[id + 1].name = "Hits"
         /\ ntuples[id + 1].finished
    /\ fSaveParticles =>
         /\ 0 \in NtupleIDs
         /\ ntuples[1].name = "Tracks"
         /\ ntuples[1].finished
    /\ \A id \in NtupleIDs : \A r \in Rows(id) :
         /\ r.kind = "hit" => ntuples[id + 1].name = "Hits"
         /\ r.kind = "track" => ntuples[id + 1].name = "Tracks"

\* The second run of a session, with saveParticles switched on after a
\* first run that wrote its hits into n-tuple 0, has a hit row in n-tuple 1.
C5_Witness ==
  /\ nRuns = 2 /\ InRun /\ fSaveParticles /\ fSaveHits
  /\ \E f \in HitFills : f.nt = 0
  /\ Len(ntuples) = 2
  /\ \E r \in Rows(1) : r.kind = "hit"

\* C6: a run with saveHits off has no Hits n-tuple and no hit row, a run
\* with saveParticles off has no Tracks n-tuple and no trajectory row, and
\* with no command issued saveHits is on and saveParticles is off.
C6_FlagsEnableNtuples ==
  /\ InRun /\ ~fSaveHits =>
       /\ \A id \in NtupleIDs : ntuples[id + 1].name # "Hits"
       /\ \A r \in AllRows : r.kind # "hit"
  /\ InRun /\ ~fSaveParticles =>
       /\ \A id \in NtupleIDs : ntuples[id + 1].name # "Tracks"
       /\ \A r \in AllRows : r.kind # "track"
  /\ nCmds = 0 => fSaveHits /\ ~fSaveParticles

\* An event that left a hit in a detector's collection has ended in a run
\* with saveHits switched off, and the run has no n-tuple.
C6_Witness ==
  /\ g4state = "GeomClosed" /\ eventID = 1
  /\ ~fSaveHits
  /\ \E sd \in SDNames : fHitsCollection[sd] # << >>
  /\ trajectoryContainer # << >>
  /\ ntuples = << >>

\* C7 as stated: once the threshold is set, no hit with an energy deposit
\* below it is written as a row of the Hits n-tuple.
C7_NoRowBelowThreshold ==
  \A r \in AllRows : r.kind = "hit" => r.edep >= fHitEnergyThreshold

\* C8 as stated: when a run starts, the GDML file and the detector
\* requests given by the commands so far are those of the constructed
\* geometry.
C8_ChangeInEffectAtRun ==
  InRun =>
    /\ fGDMLFilename \in ExistingFiles => fWorldVolume = fGDMLFilename
    /\ \A lv \in LVsOf(fWorldVolume) :
         fSensitiveDetectorsMap[lv] = lvSD[lv]

\* C9 as stated: once populated, the list of collection IDs is not
\* modified.
C9_PopulatedOnce ==
  [][fHitsCollectionIDs # << -1 >>
       => fHitsCollectionIDs' = fHitsCollectionIDs]_vars

\* C10: a file is open exactly during a run, each run opens it once and
\* writes and closes it once at its end, in that order, and rows exist only
\* in n-tuples of the run in progress, created after the file was opened
\* and not yet written.
C10_OpenWriteClose ==
  /\ fileOpen <=> InRun
  /\ amCalls.open = nRuns
  /\ amCalls.write = amCalls.close
  /\ amCalls.write = IF InRun THEN nRuns - 1 ELSE nRuns
  /\ ~InRun => ntuples = << >>
  /\ InRun => Len(ntuples) = (IF fSaveParticles THEN 1 ELSE 0)
                               + (IF fSaveHits THEN 1 ELSE 0)
  /\ AllRows # {} => fileOpen /\ amCalls.write < amCalls.open

\* Two runs that added rows have each been opened, written and closed.
C10_Witness ==
  /\ g4state = "Idle"
  /\ amCalls = [open |-> 2, write |-> 2, close |-> 2]
  /\ \E f, g \in fills : f.row = "hit" /\ g.row = "track"

Trajectories == 1..Len(trajectoryContainer)
PointsOf(i) == trajectoryContainer[i].fPositionRecord

\* C11: a trajectory built from a track and given n AppendStep calls since,
\* and not part of a MergeTrajectory call, has n + 1 points: point 0 is the
\* position the track had when the trajectory was built and point k is the
\* post-step position of the k-th step, in call order.
C11_PointsAsAppended ==
  \A i \in Trajectories :
    ~trajLog[i].merged =>
      LET n == Len(trajLog[i].appended) IN
      /\ Len(PointsOf(i)) = n + 1
      /\ PointsOf(i)[1] = trajLog[i].created
      /\ \A k \in 1..n : PointsOf(i)[k + 1] = trajLog[i].appended[k]

\* A track that started at 0, stepped to 1 and back to 0 has ended, and its
\* trajectory holds the three points in that order.
C11_Witness ==
  /\ fpTrack = Null
  /\ \E i \in Trajectories :
       /\ ~trajLog[i].merged
       /\ trajLog[i].created = 0
       /\ trajLog[i].appended = << 1, 0 >>
       /\ PointsOf(i) = << 0, 1, 0 >>

\* C12: a MergeTrajectory call of trajectory i with another AirPetTrajectory
\* j that holds m >= 1 points leaves in i its old points followed by j's
\* points 1..m-1 in order, without j's point 0, so its old count plus m - 1
\* points, and leaves j with no point.
C12_MergeAppendsTail ==
  [][\A i, j \in Trajectories :
       (lastMerge' = << i, j >> /\ i # j /\ Len(PointsOf(j)) >= 1) =>
         /\ PointsOf(i)' = PointsOf(i) \o Tail(PointsOf(j))
         /\ Len(PointsOf(i)') = Len(PointsOf(i)) + Len(PointsOf(j)) - 1
         /\ Len(PointsOf(j)') = 0]_vars

\* The trajectory of track 1, of two points, was merged with that of track
\* 2, whose point 1 differs from its point 0: it holds three points, the
\* last one being the second's point 1, and the second holds none.
C12_Witness ==
  /\ lastMerge = << 1, 2 >>
  /\ Len(PointsOf(1)) = 3
  /\ PointsOf(2) = << >>
  /\ Len(trajLog[2].appended) = 1
  /\ PointsOf(1)[3] = trajLog[2].appended[1]
  /\ PointsOf(1)[3] # trajLog[2].created

\* C13: the trajectory of a secondary track holds as parent momentum the
\* momentum its parent had at the vertex where the secondary was made, the
\* user information of a waiting secondary already holds that momentum, a
\* primary has no user information, and the trajectory of a track without
\* user information has parent momentum 0.
C13_ParentMomentumAtVertex ==
  /\ \A i \in Trajectories :
       LET aTrack == trajLog[i].track IN
       /\ aTrack.parent # 0 =>
            /\ aTrack.parentAtVertex # Null
            /\ trajectoryContainer[i].fParentMomentum =
                 aTrack.parentAtVertex[1]
       /\ aTrack.parent = 0 => aTrack.userInfo = Null
       /\ aTrack.userInfo = Null =>
            trajectoryContainer[i].fParentMomentum = 0
  /\ \A k \in 1..Len(trackStack) :
       trackStack[k].parent # 0 =>
         /\ trackStack[k].userInfo # Null
         /\ trackStack[k].userInfo = trackStack[k].parentAtVertex

\* The primary made a secondary in a step that left it momentum 2, went on
\* and ended with another momentum; the secondary's trajectory holds 2.
C13_Witness ==
  \E i \in Trajectories :
    /\ trajectoryContainer[i].fParentID = 1
    /\ trajectoryContainer[i].fParentMomentum = 2
    /\ trajectoryContainer[1].fTrackID = 1
    /\ trajectoryContainer[1].fMomentumFinal = 1
    /\ trajectoryContainer[1].fParentMomentum = 0

\* C14: after readFile was given a file that does not exist, InvalidFileName
\* has been reported and the stored file name is empty, whatever it was
\* before; Construct with an empty file name reports NoGDMLFile and returns
\* no world volume, and no step taken while the name is empty reports
\* another exception, cleans the volume store or replaces the world volume
\* the parser gave before.
C14_MissingFileReported ==
  /\ [](/\ readMissing =>
             /\ "InvalidFileName" \in exceptions
             /\ fGDMLFilename = ""
        /\ fGDMLFilename = "" =>
             /\ Construct.codes = {"NoGDMLFile"}
             /\ Construct.world = NoWorld
             /\ Construct.attached = lvSD)
  /\ [][fGDMLFilename = "" =>
          /\ exceptions' \subseteq exceptions \cup {"NoGDMLFile"}
          /\ UNCHANGED <<fWorldVolume, lvSD, sdList>>]_vars

\* The geometry was built from default.gdml; then readFile was given a
\* missing file and the geometry was initialised again: both exceptions
\* were reported, the name is empty and the world volume is the old one.
C14_Witness ==
  /\ readMissing
  /\ fGDMLFilename = ""
  /\ exceptions = {"InvalidFileName", "NoGDMLFile"}
  /\ fWorldVolume = "default.gdml"
  /\ ~geometryInitialized

\* C15: the physics list handed to the run manager is never null: it is the
\* reference list named by G4PHYSICSLIST when the variable is set and the
\* factory knows the name, and FTFP_BERT when the variable is unset or names
\* a list the factory does not know; main never calls through a null list.
C15_PhysicsListNeverNull ==
  /\ pc = "session" =>
       /\ userPhysicsList # NullList
       /\ userPhysicsList =
            IF G4PHYSICSLIST # NotSet /\ G4PHYSICSLIST[1] \in KnownPhysLists
            THEN G4PHYSICSLIST ELSE <<"FTFP_BERT">>
  /\ pc \in {"created", "optical"} => physicsList # NullList
  /\ pc # "crashed"

\* Started with G4PHYSICSLIST naming a list the factory does not know and
\* with optical physics on, the run manager was handed FTFP_BERT.
C15_Witness ==
  /\ pc = "session"
  /\ G4PHYSICSLIST = <<"MyList">>
  /\ physListName = "MyList"
  /\ opticalRegistered
  /\ userPhysicsList = <<"FTFP_BERT">>

====
